---- MODULE Spec2Model ----
(***************************************************************************)
(* Model of the HLS reverse proxy of src/index.js: the playlist rewriter   *)
(* rewriteHlsUrls, the content type detector getContentType and the        *)
(* request handler proxyHandler.                                           *)
(*                                                                         *)
(* A JavaScript string is a sequence of one-character strings, so that the *)
(* regular expressions, split/join, encodeURIComponent, decodeURIComponent *)
(* and the URL parser are computed character by character.  A MIME type    *)
(* (a Content-Type value) is a sequence of words.                          *)
(***************************************************************************)
EXTENDS Integers, Sequences, FiniteSets, TLC

(***************************************************************************)
(* Characters                                                              *)
(***************************************************************************)
LowerSeq == <<"a","b","c","d","e","f","g","h","i","j","k","l","m",
              "n","o","p","q","r","s","t","u","v","w","x","y","z">>
UpperSeq == <<"A","B","C","D","E","F","G","H","I","J","K","L","M",
              "N","O","P","Q","R","S","T","U","V","W","X","Y","Z">>
DigitSeq == <<"0","1","2","3","4","5","6","7","8","9">>

Range(f) == {f[i] : i \in DOMAIN f}

IsLower(c) == c \in Range(LowerSeq)
IsUpper(c) == c \in Range(UpperSeq)
IsDigit(c) == c \in Range(DigitSeq)
IsAlpha(c) == IsLower(c) \/ IsUpper(c)
IsAlnum(c) == IsAlpha(c) \/ IsDigit(c)
IsHex(c) == IsDigit(c) \/ c \in {"a","b","c","d","e","f","A","B","C","D","E","F"}

Lower(c) == IF IsUpper(c) THEN LowerSeq[CHOOSE i \in 1..26 : UpperSeq[i] = c] ELSE c
LowerStr(s) == [i \in 1..Len(s) |-> Lower(s[i])]

LF == "\n"
CR == "\r"
SP == " "
DQ == "\""

(***************************************************************************)
(* String.prototype helpers                                                *)
(***************************************************************************)
Min(S) == CHOOSE x \in S : \A y \in S : x <= y
Max(S) == CHOOSE x \in S : \A y \in S : x >= y

\* s.substring(i - 1): the suffix of s from position i (1-based)
From(s, i) == SubSeq(s, i, Len(s))

\* s.startsWith(p), and the same at position i
startsWithAt(s, p, i) == i + Len(p) - 1 <= Len(s) /\ SubSeq(s, i, i + Len(p) - 1) = p
startsWith(s, p) == startsWithAt(s, p, 1)

\* s.indexOf(p) + 1: the first position where p occurs in s, 0 when none
indexOf(s, p) ==
  LET I == {i \in 1..Len(s) : startsWithAt(s, p, i)}
  IN IF I = {} THEN 0 ELSE Min(I)

\* s.replace(p, r) with a string pattern: the first occurrence only
replaceFirst(s, p, r) ==
  LET i == IF p = <<>> THEN 1 ELSE indexOf(s, p)
  IN IF i = 0 THEN s
     ELSE SubSeq(s, 1, i - 1) \o r \o From(s, i + Len(p))

\* s.trim(): white space and line terminators off both ends
IsWhite(c) == c \in {SP, CR, LF, "\t"}
trim(s) ==
  LET I == {i \in 1..Len(s) : ~IsWhite(s[i])}
  IN IF I = {} THEN <<>> ELSE SubSeq(s, Min(I), Max(I))

\* s.split(sep) for a one-character separator
RECURSIVE split(_, _)
split(s, sep) ==
  LET i == indexOf(s, <<sep>>)
  IN IF i = 0 THEN <<s>>
     ELSE <<SubSeq(s, 1, i - 1)>> \o split(From(s, i + 1), sep)

\* parts.join(sep)
RECURSIVE join(_, _)
join(parts, sep) ==
  IF Len(parts) = 0 THEN <<>>
  ELSE IF Len(parts) = 1 THEN parts[1]
  ELSE parts[1] \o sep \o join(Tail(parts), sep)

(***************************************************************************)
(* encodeURIComponent, decodeURIComponent (ASCII)                          *)
(***************************************************************************)
\* the characters encodeURIComponent leaves alone
IsUnreserved(c) == IsAlnum(c) \/ c \in {"-", "_", ".", "!", "~", "*", "'", "(", ")"}

\* the UTF-8 escape of an ASCII character that is not unreserved
EscTable == << <<SP, <<"%","2","0">> >>,   <<DQ, <<"%","2","2">> >>,
               <<"#", <<"%","2","3">> >>,  <<"%", <<"%","2","5">> >>,
               <<"/", <<"%","2","F">> >>,  <<":", <<"%","3","A">> >>,
               <<"=", <<"%","3","D">> >>,  <<"?", <<"%","3","F">> >>,
               <<"[", <<"%","5","B">> >>,  <<CR, <<"%","0","D">> >>,
               <<LF, <<"%","0","A">> >>,   <<"&", <<"%","2","6">> >>,
               <<"@", <<"%","4","0">> >>,  <<"+", <<"%","2","B">> >>,
               <<",", <<"%","2","C">> >>,  <<";", <<"%","3","B">> >> >>

Escape(c) ==
  IF IsUnreserved(c) THEN <<c>>
  ELSE EscTable[CHOOSE i \in DOMAIN EscTable : EscTable[i][1] = c][2]

RECURSIVE encodeURIComponent(_)
encodeURIComponent(s) ==
  IF s = <<>> THEN <<>> ELSE Escape(Head(s)) \o encodeURIComponent(Tail(s))

\* the character an escape %XY stands for, when the table knows it
HasUnescape(x, y) ==
  \E i \in DOMAIN EscTable : LowerStr(EscTable[i][2]) = LowerStr(<<"%", x, y>>)
Unescape(x, y) ==
  EscTable[CHOOSE i \in DOMAIN EscTable :
             LowerStr(EscTable[i][2]) = LowerStr(<<"%", x, y>>)][1]

\* decodeURIComponent throws URIError on a % that does not start an escape
URIError == <<"URIError">>

RECURSIVE decodeChars(_)
decodeChars(s) ==
  IF s = <<>> THEN <<>>
  ELSE IF Head(s) # "%" THEN <<Head(s)>> \o decodeChars(Tail(s))
  ELSE <<Unescape(s[2], s[3])>> \o decodeChars(From(s, 4))

RECURSIVE decodable(_)
decodable(s) ==
  IF s = <<>> THEN TRUE
  ELSE IF Head(s) # "%" THEN decodable(Tail(s))
  ELSE Len(s) >= 3 /\ IsHex(s[2]) /\ IsHex(s[3]) /\ HasUnescape(s[2], s[3])
       /\ decodable(From(s, 4))

decodeURIComponent(s) == IF decodable(s) THEN decodeChars(s) ELSE URIError

(***************************************************************************)
(* new URL(input, base): the WHATWG URL parser, for inputs made of ASCII   *)
(* letters and digits and the punctuation . - _ : / ? # = % " space CR.    *)
(* Not covered: userinfo (@), IPv6 and IPv4 hosts, back slashes, the file  *)
(* scheme, non-ASCII.  A parsed URL is a record; a failure makes the       *)
(* constructor throw TypeError (Invalid URL).                              *)
(*   scheme   without the colon, lower case                                *)
(*   host     the host with its port ("" when the URL has none)            *)
(*   special  TRUE for http, https, ftp                                    *)
(*   path     special: the list of path segments; else the opaque path     *)
(*   query, fragment   Null when absent                                    *)
(***************************************************************************)
Null == <<"null">>
Failure == [threw |-> "TypeError"]
NoBase == [nobase |-> TRUE]

\* a string-valued expression that threw evaluates to the exception's name
TypeError == <<"TypeError">>
Threw(s) == s \in {TypeError, URIError}

HTTP == <<"h","t","t","p">>
HTTPS == <<"h","t","t","p","s">>
FTP == <<"f","t","p">>
IsSpecial(scheme) == scheme \in {HTTP, HTTPS, FTP}
DefaultPort(scheme) ==
  IF scheme = HTTP THEN <<"8","0">>
  ELSE IF scheme = HTTPS THEN <<"4","4","3">>
  ELSE <<"2","1">>

\* leading and trailing C0 control or space are stripped, then every tab and
\* newline is removed
IsC0Space(c) == c \in {SP, CR, LF, "\t"}
stripInput(s) ==
  LET I == {i \in 1..Len(s) : ~IsC0Space(s[i])}
      t == IF I = {} THEN <<>> ELSE SubSeq(s, Min(I), Max(I))
  IN SelectSeq(t, LAMBDA c : c \notin {CR, LF, "\t"})

\* scheme start state, scheme state: the position of the colon that ends a
\* scheme, 0 when the input has no scheme
schemeEnd(s) ==
  LET i == indexOf(s, <<":">>)
  IN IF i >= 2 /\ IsAlpha(s[1])
        /\ \A j \in 2..(i - 1) : IsAlnum(s[j]) \/ s[j] \in {"+", "-", "."}
     THEN i ELSE 0

\* the first position of one of the characters of S in s, Len(s) + 1 when none
firstOf(s, S) ==
  LET I == {i \in 1..Len(s) : s[i] \in S}
  IN IF I = {} THEN Len(s) + 1 ELSE Min(I)

\* percent-encoding of a path segment, a query, a fragment: of the characters
\* covered, space and the double quote are in each of the three encode sets
RECURSIVE pctEncode(_)
pctEncode(s) ==
  IF s = <<>> THEN <<>>
  ELSE (IF Head(s) \in {SP, DQ} THEN Escape(Head(s)) ELSE <<Head(s)>>)
       \o pctEncode(Tail(s))

\* query state and fragment state, from what follows the path
queryOf(s) ==
  IF s # <<>> /\ Head(s) = "?"
  THEN pctEncode(SubSeq(s, 2, firstOf(s, {"#"}) - 1)) ELSE Null
fragmentOf(s) ==
  LET i == firstOf(s, {"#"})
  IN IF i <= Len(s) THEN pctEncode(From(s, i + 1)) ELSE Null

\* path state: the segments of p are appended to the path segs
IsSingleDot(b) == LowerStr(b) \in {<<".">>, <<"%","2","e">>}
IsDoubleDot(b) ==
  LowerStr(b) \in {<<".",".">>, <<".","%","2","e">>, <<"%","2","e",".">>,
                   <<"%","2","e","%","2","e">>}
shorten(segs) == IF segs = <<>> THEN <<>> ELSE SubSeq(segs, 1, Len(segs) - 1)

RECURSIVE pathState(_, _)
pathState(segs, p) ==
  LET i == firstOf(p, {"/"})
      b == SubSeq(p, 1, i - 1)
      last == i > Len(p)
      segs1 == IF IsDoubleDot(b)
               THEN (IF last THEN Append(shorten(segs), <<>>) ELSE shorten(segs))
               ELSE IF IsSingleDot(b)
               THEN (IF last THEN Append(segs, <<>>) ELSE segs)
               ELSE Append(segs, pctEncode(b))
  IN IF last THEN segs1 ELSE pathState(segs1, From(p, i + 1))

\* path start state for a special URL: s is what follows the authority, or a
\* relative reference that begins with one slash
pathStart(s) ==
  LET e == firstOf(s, {"?", "#"})
      p == SubSeq(s, 1, e - 1)
  IN pathState(<<>>, IF p # <<>> /\ Head(p) = "/" THEN Tail(p) ELSE p)

\* the host parser and the port state, on the authority a
percentDecodable(s, i) == s[i] = "%" /\ i + 2 <= Len(s) /\ IsHex(s[i+1]) /\ IsHex(s[i+2])
hostOK(h) ==
  /\ h # <<>>
  /\ \A i \in 1..Len(h) :
        /\ h[i] \notin {SP, "#", "/", ":", "?", "@", "[", "]", "<", ">", "^", "|"}
        /\ h[i] = "%" =>
             /\ percentDecodable(h, i) /\ HasUnescape(h[i+1], h[i+2])
             /\ Unescape(h[i+1], h[i+2]) \in {"=", DQ, "&", "+", ",", ";"}
portOK(p) == Len(p) <= 4 /\ \A i \in 1..Len(p) : IsDigit(p[i])

hostPort(scheme, h, port, s) ==
  IF ~hostOK(h) \/ ~portOK(port) THEN Failure
  ELSE [scheme |-> scheme, special |-> TRUE,
        host |-> IF port = <<>> \/ port = DefaultPort(scheme) THEN h
                 ELSE h \o <<":">> \o port,
        path |-> pathStart(From(s, firstOf(s, {"/", "?", "#"}))),
        query |-> queryOf(From(s, firstOf(s, {"?", "#"}))),
        fragment |-> fragmentOf(s)]

\* host state, port state: the authority a is split at its first colon
authoritySplit(scheme, a, c, s) ==
  hostPort(scheme, LowerStr(SubSeq(a, 1, c - 1)), From(a, c + 1), s)

\* authority state: s begins with the authority, which ends at / ? # or the end
authorityOf(s) == SubSeq(s, 1, firstOf(s, {"/", "?", "#"}) - 1)
authorityState(scheme, s) ==
  authoritySplit(scheme, authorityOf(s), firstOf(authorityOf(s), {":"}), s)

\* special authority ignore slashes state
RECURSIVE skipSlashes(_)
skipSlashes(s) == IF s # <<>> /\ Head(s) = "/" THEN skipSlashes(Tail(s)) ELSE s

\* a URL with a scheme that is not special: an opaque path, or an authority
\* and a path that are kept as written
nonSpecial(scheme, s) ==
  [scheme |-> scheme, special |-> FALSE, host |-> <<>>,
   path |-> SubSeq(s, 1, firstOf(s, {"?", "#"}) - 1),
   query |-> queryOf(From(s, firstOf(s, {"?", "#"}))),
   fragment |-> fragmentOf(s)]

\* relative state, relative slash state: s has no scheme of its own
relativeState(s, base) ==
  IF s = <<>> THEN [base EXCEPT !.fragment = Null]
  ELSE IF startsWith(s, <<"/", "/">>) THEN authorityState(base.scheme, skipSlashes(s))
  ELSE [base EXCEPT
          !.path = IF Head(s) = "/" THEN pathStart(s)
                   ELSE IF Head(s) \in {"?", "#"} THEN @
                   ELSE pathState(shorten(@), SubSeq(s, 1, firstOf(s, {"?", "#"}) - 1)),
          !.query = IF Head(s) = "#" THEN @
                    ELSE queryOf(From(s, firstOf(s, {"?", "#"}))),
          !.fragment = fragmentOf(s)]

\* scheme state, on the input s whose scheme ends at position i (0: no scheme)
schemeState(s, i, scheme, base) ==
  IF i = 0 THEN (IF base = NoBase THEN Failure ELSE relativeState(s, base))
  ELSE IF ~IsSpecial(scheme) THEN nonSpecial(scheme, From(s, i + 1))
  ELSE IF base # NoBase /\ base.scheme = scheme /\ ~startsWithAt(s, <<"/", "/">>, i + 1)
    THEN relativeState(From(s, i + 1), base)
  ELSE authorityState(scheme, skipSlashes(From(s, i + 1)))

parseStripped(s, base) ==
  schemeState(s, schemeEnd(s), LowerStr(SubSeq(s, 1, schemeEnd(s) - 1)), base)

\* the basic URL parser; base is a parsed special URL or NoBase
parseURL(input, base) == parseStripped(stripInput(input), base)

\* new URL(input) and new URL(input, base) with base a string
NewURL(input) == parseURL(input, NoBase)
parseWithBase(input, b) == IF b = Failure THEN Failure ELSE parseURL(input, b)
NewURL2(input, baseStr) == parseWithBase(input, parseURL(baseStr, NoBase))

\* the getters protocol, pathname, origin, href
protocol(u) == u.scheme \o <<":">>
pathname(u) == IF u.special THEN <<"/">> \o join(u.path, <<"/">>) ELSE u.path
origin(u) ==
  IF u.special THEN u.scheme \o <<":", "/", "/">> \o u.host
  ELSE <<"n","u","l","l">>
href(u) ==
  (IF u.special THEN u.scheme \o <<":", "/", "/">> \o u.host ELSE u.scheme \o <<":">>)
  \o pathname(u)
  \o (IF u.query = Null THEN <<>> ELSE <<"?">> \o u.query)
  \o (IF u.fragment = Null THEN <<>> ELSE <<"#">> \o u.fragment)

(***************************************************************************)
(* Regular expressions of src/index.js                                     *)
(***************************************************************************)
\* /^https?:\/\//
PREFIX_HTTP == <<"h","t","t","p",":","/","/">>
PREFIX_HTTPS == <<"h","t","t","p","s",":","/","/">>
\* mutant: the pattern /^https:\/\// , which misses http://
matchHttp_httpsOnly(s) == startsWith(s, PREFIX_HTTPS)
matchHttp(s) == startsWith(s, PREFIX_HTTP) \/ startsWith(s, PREFIX_HTTPS)

M3U8 == <<"m","3","u","8">>
TS == <<"t","s">>
M2TS == <<"m","2","t","s">>
VTT == <<"v","t","t">>
SRT == <<"s","r","t">>
ASS == <<"a","s","s">>
SSA == <<"s","s","a">>
MP4 == <<"m","p","4">>
M4V == <<"m","4","v">>

\* /^[^/]+\.(m3u8|ts|vtt|srt|ass|mp4|m4v)/ : some dot that follows one or more
\* characters, none of them a slash, starts one of the extensions
\* mutant: the extensions without mp4 and m4v
RewriteExts_noMp4 == {M3U8, TS, VTT, SRT, ASS}
RewriteExts == {M3U8, TS, VTT, SRT, ASS, MP4, M4V}
matchRelative(s) ==
  \E i \in 2..Len(s) :
     /\ \A j \in 1..(i - 1) : s[j] # "/"
     /\ s[i] = "."
     /\ \E e \in RewriteExts : startsWithAt(s, e, i + 1)

\* /\.(e1|e2|...)($|\?)/i : some dot starts one of the extensions, in any
\* case, and the end of the string or a question mark follows it
matchExt(s, exts) ==
  \E i \in 1..Len(s) : \E e \in exts :
     /\ s[i] = "."
     /\ startsWithAt(LowerStr(s), e, i + 1)
     /\ (i + Len(e) = Len(s) \/ (i + Len(e) < Len(s) /\ s[i + Len(e) + 1] = "?"))

\* pathname.replace(/\/[^/]*$/, "/") : what follows the last slash is dropped
dropLastSegment(p) ==
  LET I == {i \in 1..Len(p) : p[i] = "/"}
  IN IF I = {} THEN p ELSE SubSeq(p, 1, Max(I))

\* line.match(/URI="([^"]+)"/)[1] : the first URI=" that is followed by one or
\* more characters other than a quote and then a quote; the group is those
\* characters.  No match is null, and null[1] throws TypeError.
URI_EQ == <<"U","R","I","=",DQ>>
matchUriAttr(s) ==
  LET I == {i \in 1..Len(s) :
              /\ startsWithAt(s, URI_EQ, i)
              /\ i + 5 <= Len(s) /\ s[i + 5] # DQ
              /\ \E j \in (i + 6)..Len(s) : s[j] = DQ}
      i == Min(I)
      j == Min({k \in (i + 6)..Len(s) : s[k] = DQ})
  IN IF I = {} THEN TypeError ELSE SubSeq(s, i + 5, j - 1)

(***************************************************************************)
(* rewriteHlsUrls (src/index.js 58-97)                                     *)
(***************************************************************************)
PROXY_PREFIX == <<"/","p","r","o","x","y","?","u","r","l","=">>
MAP_TAG == <<"#","E","X","T","-","X","-","M","A","P",":","U","R","I","=">>

\* a proxy-routed reference to the URL u
proxied(u) == PROXY_PREFIX \o encodeURIComponent(u)

\* new URL(ref, basePath).href, TypeError when the constructor throws
hrefOrThrow(u) == IF u = Failure THEN TypeError ELSE href(u)
resolve(ref, basePath) == hrefOrThrow(NewURL2(ref, basePath))

\* lines 61-63
basePathOf(urlObj) ==
  protocol(urlObj) \o <<"/", "/">> \o urlObj.host \o dropLastSegment(pathname(urlObj))

\* lines 74-77
replaceUri(line, uri, resolvedUri) ==
  IF Threw(resolvedUri) THEN TypeError
  ELSE replaceFirst(line, uri, proxied(resolvedUri))

\* lines 72-73
resolveUri(line, uri, basePath) ==
  IF Threw(uri) THEN TypeError
  ELSE replaceUri(line, uri, resolve(uri, basePath))

\* lines 71-78, the branch for the init-segment tag
rewriteMapTag(line, basePath) == resolveUri(line, matchUriAttr(line), basePath)

\* lines 84-88, the branch for a relative reference
proxiedOrThrow(resolved) == IF Threw(resolved) THEN TypeError ELSE proxied(resolved)
rewriteRelative(line, basePath) == proxiedOrThrow(resolve(line, basePath))

\* mutant: the callback without the test for a leading #
rewriteLine_noCommentCheck(line, basePath) ==
  IF trim(line) = <<>> THEN line
  ELSE IF matchHttp(line) THEN proxied(line)
  ELSE IF matchRelative(line) THEN rewriteRelative(line, basePath)
  ELSE line

\* the callback of map, lines 67-91: the new line, or TypeError when it throws
rewriteLine(line, basePath) ==
  IF startsWith(line, <<"#">>) \/ trim(line) = <<>> THEN line
  ELSE IF startsWith(line, MAP_TAG) THEN rewriteMapTag(line, basePath)
  ELSE IF matchHttp(line) THEN proxied(line)
  ELSE IF matchRelative(line) THEN rewriteRelative(line, basePath)
  ELSE line

\* lines 66-67: split and map
mapLines(lines, basePath) == [i \in 1..Len(lines) |-> rewriteLine(lines[i], basePath)]

\* lines 92-96: join, or the catch block when a callback threw
joinOrCatch(content, out) ==
  IF \E i \in 1..Len(out) : Threw(out[i]) THEN content ELSE join(out, <<LF>>)

\* mutant: no try/catch around new URL(baseUrl)
rewriteWith_noCatch(content, urlObj) ==
  IF urlObj = Failure THEN TypeError
  ELSE joinOrCatch(content, mapLines(split(content, LF), basePathOf(urlObj)))

\* lines 60-96, with the parsed base URL
rewriteWith(content, urlObj) ==
  IF urlObj = Failure THEN content
  ELSE joinOrCatch(content, mapLines(split(content, LF), basePathOf(urlObj)))

rewriteHlsUrls(content, baseUrl) == rewriteWith(content, NewURL(baseUrl))

(***************************************************************************)
(* Inputs of the rewriter: manifest lines and base URLs                    *)
(***************************************************************************)
MaxLines == 2

L_comment == <<"#","E","X","T","M","3","U">>
L_commentRef == <<"#","s",".","t","s">>
L_mapRel == MAP_TAG \o <<DQ,"i",".","m","p","4",DQ>>
L_abs == PREFIX_HTTPS \o <<"o","/","s",".","t","s">>
L_absQuery == PREFIX_HTTP \o <<"o","/","a","?","t","=","b">>
L_subdir == <<"d","/","s",".","t","s">>
L_crlf == <<"s",".","t","s",CR>>
L_badHost == <<"h","t","t","p",":","a",SP,"b",".","t","s">>

\* a bare file name s.<ext> for each extension the rewriter knows
L_file(e) == <<"s",".">> \o e

Lines ==
  {<<>>, <<SP>>, L_comment, L_commentRef, L_mapRel, L_abs, L_absQuery,
   L_subdir, L_crlf, L_badHost}
  \cup {L_file(e) : e \in {M3U8, TS, VTT, SRT, ASS, MP4, M4V}}

Manifests ==
  UNION {{join(ls, <<LF>>) : ls \in [1..n -> Lines]} : n \in 1..MaxLines}

B_dir == PREFIX_HTTPS \o <<"h","/","d","/","m",".","m","3","u","8">>
B_root == PREFIX_HTTP \o <<"h","/","m",".","m","3","u","8">>
B_query == PREFIX_HTTPS \o <<"h","/","d","/","e","/","m","?","t","=","/","z">>
B_noPath == PREFIX_HTTPS \o <<"h">>
B_noScheme == <<"h","/","m",".","m","3","u","8">>
B_noHost == PREFIX_HTTPS

Bases == {B_dir, B_root, B_query, B_noPath, B_noScheme, B_noHost}

(***************************************************************************)
(* HTTP values                                                             *)
(*                                                                         *)
(* A header value is a sequence of words; a set of headers is a function   *)
(* from lower-case header names to values.  A body is a sequence of bytes: *)
(* an ASCII byte is its character, BYTE_FF is a byte that is not valid     *)
(* UTF-8, and REPLACEMENT is U+FFFD in a decoded string.                   *)
(***************************************************************************)
Undefined == <<"undefined">>
Truthy(v) == v # Undefined /\ v # <<>>

\* String(v): the string a value is converted to
toStr(v) ==
  IF v = Undefined THEN <<"u","n","d","e","f","i","n","e","d">> ELSE v

get(headers, name) == IF name \in DOMAIN headers THEN headers[name] ELSE Undefined
\* res.set(name, value) and res.set(object)
setAll(headers, obj) == obj @@ headers
set(headers, name, value) == setAll(headers, name :> value)

BYTE_FF == "0xFF"
REPLACEMENT == "U+FFFD"

\* a buffer decoded as UTF-8 text (responseType "text", Buffer.toString())
utf8Decode(bytes) == [i \in 1..Len(bytes) |-> IF bytes[i] = BYTE_FF THEN REPLACEMENT ELSE bytes[i]]
\* a string encoded as UTF-8 (Buffer.from(string), res.send(string))
RECURSIVE utf8Encode(_)
utf8Encode(str) ==
  IF str = <<>> THEN <<>>
  ELSE (IF Head(str) = REPLACEMENT THEN <<"0xEF", "0xBF", "0xBD">> ELSE <<Head(str)>>)
       \o utf8Encode(Tail(str))

\* MIME types, as words
MPEGURL == <<"application/vnd.apple.", "mpegurl">>
MP2T == <<"video/mp2t">>
TEXT_VTT == <<"text/vtt">>
TEXT_PLAIN == <<"text/plain">>
TEXT_ASS == <<"text/x-ass">>
VIDEO_MP4 == <<"video/mp4">>
OCTET_STREAM == <<"application/octet-stream">>

\* value.split(";")[0] on words
beforeSemicolon(v) ==
  LET I == {i \in 1..Len(v) : v[i] = ";"}
  IN IF I = {} THEN v ELSE SubSeq(v, 1, Min(I) - 1)

\* contentType.includes("mpegurl") on words
includesMpegurl(v) == \E i \in 1..Len(v) : v[i] = "mpegurl"

(***************************************************************************)
(* getContentType (src/index.js 44-55)                                     *)
(***************************************************************************)
getContentType(url, headers) ==
  LET h == get(headers, "content-type")
      contentType == IF h = Undefined THEN Undefined ELSE beforeSemicolon(h)
  IN IF Truthy(contentType) THEN contentType
     ELSE IF matchExt(url, {M3U8}) THEN MPEGURL
     ELSE IF matchExt(url, {TS, M2TS}) THEN MP2T
     ELSE IF matchExt(url, {VTT}) THEN TEXT_VTT
     ELSE IF matchExt(url, {SRT}) THEN TEXT_PLAIN
     ELSE IF matchExt(url, {ASS, SSA}) THEN TEXT_ASS
     ELSE IF matchExt(url, {MP4, M4V}) THEN VIDEO_MP4
     ELSE OCTET_STREAM

(***************************************************************************)
(* The pieces of proxyHandler (src/index.js 100-176)                       *)
(***************************************************************************)
SubtitleExts == {VTT, SRT, ASS, SSA}
HlsExts == {M3U8, TS}
\* lines 110-111
isSubtitle(url) == matchExt(url, SubtitleExts)
isHls(url) == matchExt(url, HlsExts)

\* lines 114-120: the headers of the outbound request
requestHeaders(url, range) ==
  LET o == origin(NewURL(url))
      fixed == ("user-agent" :> <<"Mozilla/5.0">>)
               @@ ("accept" :> IF isSubtitle(url) THEN <<"text/vtt, */*">> ELSE <<"*/*">>)
               @@ ("referer" :> o) @@ ("origin" :> o)
  IN IF Truthy(range) THEN ("range" :> range) @@ fixed ELSE fixed

\* mutant: subtitles fetched as text
responseTypeOf_textSubtitles(url) ==
  IF isSubtitle(url) \/ isHls(url) THEN "text" ELSE "arraybuffer"

\* lines 127 and 144: the responseType of the outbound request
responseTypeOf(url) ==
  IF isSubtitle(url) THEN "stream"
  ELSE IF isHls(url) THEN "text"
  ELSE "arraybuffer"

SUBTITLE_TIMEOUT == 10000
DEFAULT_TIMEOUT == 15000
\* lines 129 and 146
timeoutOf(url) == IF isSubtitle(url) THEN SUBTITLE_TIMEOUT ELSE DEFAULT_TIMEOUT

\* what axios hands over as response.data for a body, by responseType: the
\* stream itself, the decoded text, or the bytes
dataOf(responseType, body) ==
  IF responseType = "stream" THEN [kind |-> "stream", value |-> body]
  ELSE IF responseType = "text" THEN [kind |-> "string", value |-> utf8Decode(body)]
  ELSE [kind |-> "buffer", value |-> body]

\* axios resolves on a status its default validateStatus accepts and rejects,
\* with err.response, on every other
validateStatus(status) == status >= 200 /\ status < 300

\* the express response object
NewResponse ==
  [status |-> 200, headers |-> ("x-powered-by" :> <<"Express">>),
   body |-> <<>>, sent |-> FALSE, threw |-> FALSE]
status(res, code) == [res EXCEPT !.status = code]
\* res.json(obj), the object written as one word
json(res, obj) ==
  [res EXCEPT !.headers = set(@, "content-type", <<"application/json">>),
              !.body = obj, !.sent = TRUE]
\* res.send(data): a string is written as UTF-8 and a Buffer as it is; any other
\* object goes to res.json, and JSON.stringify throws TypeError on a stream
\* (the stream, its socket and its request refer to each other)
send(res, data) ==
  IF data.kind = "string" THEN [res EXCEPT !.body = utf8Encode(data.value), !.sent = TRUE]
  ELSE IF data.kind = "buffer" THEN [res EXCEPT !.body = data.value, !.sent = TRUE]
  ELSE [res EXCEPT !.threw = TRUE]
\* stream.pipe(res)
pipe(res, data) == [res EXCEPT !.body = data.value, !.sent = TRUE]

\* lines 170-174
proxyError(res, message, code) ==
  json(status(res, 500),
       <<"{error: Proxy error, message: ">> \o message
       \o (IF Truthy(code) THEN <<", code: ">> \o code ELSE <<>>) \o <<"}">>)

\* lines 165-168
relayError(res, response) ==
  send(status([res EXCEPT !.headers = setAll(@, response.headers)], response.status),
       response.data)

\* lines 132-139
relaySubtitle(res, url, response) ==
  pipe([res EXCEPT !.headers =
          setAll(@, ("content-type" :> getContentType(url, response.headers))
                    @@ ("cache-control" :> <<"public, max-age=3600">>)
                    @@ ("access-control-allow-origin" :> <<"*">>)
                    @@ ("access-control-expose-headers" :> <<"Content-Length">>))],
       response.data)

\* lines 152-158
sendManifest(res, url, response) ==
  LET text == IF isHls(url) THEN response.data.value
              ELSE utf8Decode(response.data.value)
  IN send([res EXCEPT !.headers = set(@, "content-type", getContentType(url, response.headers))],
          [kind |-> "string", value |-> rewriteHlsUrls(text, url)])

\* lines 160-161; Buffer.from encodes a string and copies a buffer
sendOther(res, url, response) ==
  LET h1 == set(res.headers, "content-type", getContentType(url, response.headers))
      h2 == set(h1, "cache-control",
                IF isHls(url) THEN <<"no-cache">> ELSE <<"public, max-age=86400">>)
      bytes == IF response.data.kind = "string" THEN utf8Encode(response.data.value)
               ELSE response.data.value
  IN send([res EXCEPT !.headers = h2], [kind |-> "buffer", value |-> bytes])

(***************************************************************************)
(* Inputs of the handler: the url query parameter as express hands it over *)
(* (decoded once), the inbound Range header, and what upstream answers     *)
(***************************************************************************)
Q_ts == PREFIX_HTTPS \o <<"h","/","d","/","s",".","t","s">>
Q_m3u8 == B_dir
Q_vtt == PREFIX_HTTPS \o <<"h","/","s",".","v","t","t">>
Q_srt == PREFIX_HTTP \o <<"h","/","s",".","S","R","T","?","a">>
Q_mp4 == PREFIX_HTTPS \o <<"h","/","s",".","m","p","4">>
Q_plain == PREFIX_HTTPS \o <<"h","/","a">>
Q_encoded == <<"h","t","t","p","s","%","3","A","%","2","F","%","2","F","h","%","2","F","s",".","t","s">>
Q_ftp == <<"f","t","p",":","/","/","h","/","s",".","t","s">>
Q_relative == B_noScheme
Q_noHost == PREFIX_HTTP
Q_percent == PREFIX_HTTPS \o <<"h","/","a","%">>
Q_both == PREFIX_HTTPS \o <<"h","/","m",".","m","3","u","8","?","s",".","v","t","t">>

Queries ==
  {Undefined, <<>>, Q_ts, Q_m3u8, Q_vtt, Q_srt, Q_mp4, Q_plain, Q_encoded,
   Q_ftp, Q_relative, Q_noHost, Q_percent, Q_both}

RANGE_VALUE == <<"bytes=0-1023">>
Ranges == {Undefined, RANGE_VALUE}

BODY_manifest == join(<<L_comment, L_file(M3U8), L_abs>>, <<LF>>)
BODY_text == <<"g","o","n","e">>
BODY_binary == <<"G", BYTE_FF>>
Bodies == {BODY_manifest, BODY_text, BODY_binary}

Statuses == {200, 206, 404, 410, 500}
ContentTypes ==
  {Undefined, <<>>, MPEGURL, <<"text/plain", ";", " charset=utf-8">>}
ErrorCodes == {<<"ECONNABORTED">>, <<"ECONNREFUSED">>}

\* the headers of an upstream response
upstreamHeaders(code, ct) ==
  LET h0 == "server" :> <<"nginx">>
      h1 == IF ct = Undefined THEN h0 ELSE ("content-type" :> ct) @@ h0
  IN IF code = 206
     THEN ("content-range" :> <<"bytes 0-1023/4096">>)
          @@ ("accept-ranges" :> <<"bytes">>) @@ h1
     ELSE h1

NoRequest == [sent |-> FALSE]
NoResponse == [kind |-> "none"]

(***************************************************************************)
(* State                                                                   *)
(***************************************************************************)
VARIABLES
  content,    \* rewriter: the manifest text passed to rewriteHlsUrls
  baseUrl,    \* rewriter: the base URL passed to rewriteHlsUrls
  rpc,        \* rewriter: "idle", "call" before the call, "done" after it
  result,     \* rewriter: the value returned
  query,      \* handler: req.query.url
  range,      \* handler: req.headers.range
  pc,         \* handler: "idle", "start", "awaiting", "resolved", "rejected",
              \*          "threw" (an exception left the handler), "done"
  validated,  \* handler: the request passed the checks of lines 103-108
  outReq,     \* handler: the request given to axios, NoRequest before that
  fetchCount, \* handler: the number of requests given to axios
  upstream,   \* handler: what came back from upstream, NoResponse before that
  res         \* handler: the response to the client

rvars == <<content, baseUrl, rpc, result>>
hvars == <<query, range, pc, validated, outReq, fetchCount, upstream, res>>
vars == <<content, baseUrl, rpc, result,
          query, range, pc, validated, outReq, fetchCount, upstream, res>>

RewriterIdle ==
  /\ content = <<>>
  /\ baseUrl = <<>>
  /\ rpc = "idle"
  /\ result = <<>>

HandlerIdle ==
  /\ query = Undefined
  /\ range = Undefined
  /\ pc = "idle"
  /\ validated = FALSE
  /\ outReq = NoRequest
  /\ fetchCount = 0
  /\ upstream = NoResponse
  /\ res = NewResponse

(***************************************************************************)
(* The rewriter, called on its own                                         *)
(***************************************************************************)
InitRewrite ==
  /\ content \in Manifests
  /\ baseUrl \in Bases
  /\ rpc = "call"
  /\ result = <<>>
  /\ HandlerIdle

\* one call of rewriteHlsUrls(content, baseUrl)
Rewrite ==
  /\ rpc = "call"
  /\ result' = rewriteHlsUrls(content, baseUrl)
  /\ rpc' = "done"
  /\ UNCHANGED <<content, baseUrl>>
  /\ UNCHANGED hvars

NextRewrite == Rewrite

SpecRewrite == InitRewrite /\ [][NextRewrite]_vars

(***************************************************************************)
(* The handler, one request                                                *)
(***************************************************************************)
Init ==
  /\ RewriterIdle
  /\ query \in Queries
  /\ range \in Ranges
  /\ pc = "start"
  /\ validated = FALSE
  /\ outReq = NoRequest
  /\ fetchCount = 0
  /\ upstream = NoResponse
  /\ res = NewResponse

\* line 102
decodedUrl == decodeURIComponent(toStr(query))

\* lines 102-108: the parameter decodes, and is empty or does not begin with
\* http:// or https://
Reject ==
  /\ pc = "start"
  /\ ~Threw(decodedUrl)
  /\ \/ /\ decodedUrl = <<>>
        /\ res' = json(status(res, 400), <<"{error: Missing URL parameter}">>)
     \/ /\ decodedUrl # <<>>
        /\ ~matchHttp(decodedUrl)
        /\ res' = json(status(res, 400), <<"{error: Invalid URL format}">>)
  /\ pc' = "done"
  /\ UNCHANGED <<query, range, validated, outReq, fetchCount, upstream>>
  /\ UNCHANGED rvars

\* lines 102-120 and 162-175: decodeURIComponent throws URIError, or the
\* parameter passes the checks and new URL(url) throws TypeError; the catch
\* block answers 500
ThrowBeforeFetch ==
  /\ pc = "start"
  /\ \/ /\ Threw(decodedUrl)
        /\ validated' = FALSE
        /\ res' = proxyError(res, <<"URI malformed">>, Undefined)
     \/ /\ ~Threw(decodedUrl)
        /\ decodedUrl # <<>>
        /\ matchHttp(decodedUrl)
        /\ NewURL(decodedUrl) = Failure
        /\ validated' = TRUE
        /\ res' = proxyError(res, <<"Invalid URL">>, <<"ERR_INVALID_URL">>)
  /\ pc' = "done"
  /\ UNCHANGED <<query, range, outReq, fetchCount, upstream>>
  /\ UNCHANGED rvars

\* lines 102-147, up to the await: the request is given to axios
Fetch ==
  /\ pc = "start"
  /\ ~Threw(decodedUrl)
  /\ decodedUrl # <<>>
  /\ matchHttp(decodedUrl)
  /\ NewURL(decodedUrl) # Failure
  /\ validated' = TRUE
  /\ outReq' = [sent |-> TRUE, method |-> "get", url |-> decodedUrl,
                responseType |-> responseTypeOf(decodedUrl),
                headers |-> requestHeaders(decodedUrl, range),
                timeout |-> timeoutOf(decodedUrl)]
  /\ fetchCount' = fetchCount + 1
  /\ pc' = "awaiting"
  /\ UNCHANGED <<query, range, upstream, res>>
  /\ UNCHANGED rvars

\* upstream answers; axios resolves or rejects by the status
UpstreamResponds ==
  /\ pc = "awaiting"
  /\ \E code \in Statuses, ct \in ContentTypes, body \in Bodies :
       /\ code = 206 => "range" \in DOMAIN outReq.headers
       /\ upstream' = [kind |-> "response", status |-> code,
                       headers |-> upstreamHeaders(code, ct),
                       body |-> body,
                       data |-> dataOf(outReq.responseType, body),
                       code |-> Undefined]
       /\ pc' = IF validateStatus(code) THEN "resolved" ELSE "rejected"
  /\ UNCHANGED <<query, range, validated, outReq, fetchCount, res>>
  /\ UNCHANGED rvars

\* no answer: a network error or the timeout; axios rejects without err.response
UpstreamFails ==
  /\ pc = "awaiting"
  /\ \E code \in ErrorCodes :
       upstream' = [kind |-> "error", status |-> 0, headers |-> "server" :> <<>>,
                    body |-> <<>>, data |-> dataOf("text", <<>>), code |-> code]
  /\ pc' = "rejected"
  /\ UNCHANGED <<query, range, validated, outReq, fetchCount, res>>
  /\ UNCHANGED rvars

\* lines 123-140
RelaySubtitle ==
  /\ pc = "resolved"
  /\ isSubtitle(outReq.url)
  /\ res' = relaySubtitle(res, outReq.url, upstream)
  /\ pc' = "done"
  /\ UNCHANGED <<query, range, validated, outReq, fetchCount, upstream>>
  /\ UNCHANGED rvars

\* lines 149-158
SendManifest ==
  /\ pc = "resolved"
  /\ ~isSubtitle(outReq.url)
  /\ includesMpegurl(getContentType(outReq.url, upstream.headers))
  /\ res' = sendManifest(res, outReq.url, upstream)
  /\ pc' = "done"
  /\ UNCHANGED <<query, range, validated, outReq, fetchCount, upstream>>
  /\ UNCHANGED rvars

\* lines 149-152 and 160-161
SendOther ==
  /\ pc = "resolved"
  /\ ~isSubtitle(outReq.url)
  /\ ~includesMpegurl(getContentType(outReq.url, upstream.headers))
  /\ res' = sendOther(res, outReq.url, upstream)
  /\ pc' = "done"
  /\ UNCHANGED <<query, range, validated, outReq, fetchCount, upstream>>
  /\ UNCHANGED rvars

\* lines 162-175, after the await: the catch block.  With err.response its
\* headers, status and data are relayed, and res.send throws when the data is
\* a stream; without, the answer is 500.
Catch ==
  /\ pc = "rejected"
  /\ \/ /\ upstream.kind = "response"
        /\ res' = relayError(res, upstream)
        /\ pc' = IF upstream.data.kind = "stream" THEN "threw" ELSE "done"
     \/ /\ upstream.kind = "error"
        /\ res' = proxyError(res, <<"timeout or network error">>, upstream.code)
        /\ pc' = "done"
  /\ UNCHANGED <<query, range, validated, outReq, fetchCount, upstream>>
  /\ UNCHANGED rvars

\* lines 193-196: the error handling middleware, when express passes the
\* handler's rejection on to it (express 5 does, express 4 leaves the request
\* unanswered)
ErrorMiddleware ==
  /\ pc = "threw"
  /\ res' = json(status(res, 500), <<"{error: Internal server error}">>)
  /\ pc' = "done"
  /\ UNCHANGED <<query, range, validated, outReq, fetchCount, upstream>>
  /\ UNCHANGED rvars

Next ==
  \/ Reject
  \/ ThrowBeforeFetch
  \/ Fetch
  \/ UpstreamResponds
  \/ UpstreamFails
  \/ RelaySubtitle
  \/ SendManifest
  \/ SendOther
  \/ Catch
  \/ ErrorMiddleware

Spec == Init /\ [][Next]_vars

(***************************************************************************)
(* Properties of the rewriter (SpecRewrite)                                *)
(***************************************************************************)
inLines == split(content, LF)
outLines == split(result, LF)

\* the base URL parses as an absolute URL
ValidBase == NewURL(baseUrl) # Failure

\* a line that is one absolute http:// or https:// URL and nothing else
AbsoluteUrlLine(l) ==
  /\ \E p \in {PREFIX_HTTP, PREFIX_HTTPS} : startsWith(l, p)
  /\ \A i \in 1..Len(l) : ~IsWhite(l[i])
  /\ NewURL(l) # Failure

\* a bare relative file name with a recognized media extension: a non-empty
\* stem and the extension, made of letters, digits and . _ -
BareFile(l) ==
  /\ \A i \in 1..Len(l) : IsAlnum(l[i]) \/ l[i] \in {".", "_", "-"}
  /\ \E e \in {M3U8, TS, VTT, SRT, ASS, MP4, M4V} :
       /\ Len(l) > Len(e) + 1
       /\ From(l, Len(l) - Len(e)) = <<".">> \o e

\* a base URL of the form scheme://host/dir.../manifest-file, with or without
\* a query
BaseOfForm(b) ==
  /\ \E p \in {PREFIX_HTTP, PREFIX_HTTPS} : startsWith(b, p)
  /\ NewURL(b) # Failure
  /\ "#" \notin Range(b)
  /\ NewURL(b).path # << <<>> >>

\* the sibling r of the manifest at b: b without its query, cut after its last
\* slash, then r
SiblingOf(b, r) ==
  LET noQuery == SubSeq(b, 1, firstOf(b, {"?"}) - 1)
  IN SubSeq(noQuery, 1, Max({i \in 1..Len(noQuery) : noQuery[i] = "/"})) \o r

\* a line the rewriter resolves against the base as a relative reference, and
\* whose resolution throws
Unresolvable(l) ==
  /\ ~startsWith(l, <<"#">>)
  /\ ~matchHttp(l)
  /\ matchRelative(l)
  /\ NewURL2(l, baseUrl) = Failure
ResolutionFails == \E i \in 1..Len(inLines) : Unresolvable(inLines[i])

\* C1 as stated: for every manifest and valid base URL, each line that is one
\* absolute http(s) URL U becomes "/proxy?url=" + encodeURIComponent(U) at the
\* same position.
C1_AsStated ==
  (rpc = "done" /\ ValidBase) =>
     /\ Len(outLines) = Len(inLines)
     /\ \A i \in 1..Len(inLines) :
          AbsoluteUrlLine(inLines[i]) => outLines[i] = PROXY_PREFIX \o encodeURIComponent(inLines[i])

\* C1 amended: the same, unless resolving some relative reference of the
\* manifest throws; then the manifest is returned as it was.
C1_AbsoluteLines ==
  (rpc = "done" /\ ValidBase) =>
     IF ResolutionFails THEN result = content
     ELSE /\ Len(outLines) = Len(inLines)
          /\ \A i \in 1..Len(inLines) :
               AbsoluteUrlLine(inLines[i]) =>
                 outLines[i] = PROXY_PREFIX \o encodeURIComponent(inLines[i])

C1_Witness ==
  /\ rpc = "done" /\ ValidBase /\ ~ResolutionFails
  /\ Len(inLines) = 2
  /\ AbsoluteUrlLine(inLines[2]) /\ ~AbsoluteUrlLine(inLines[1])
  /\ startsWith(inLines[2], PREFIX_HTTP)
  /\ outLines[2] = PROXY_PREFIX \o encodeURIComponent(inLines[2])
  /\ outLines[2] # inLines[2]

\* C2 as stated: for every base URL scheme://host/dir.../manifest-file, each
\* line that is a bare file name R with a recognized extension becomes
\* "/proxy?url=" + encodeURIComponent(scheme://host/dir.../R).
C2_AsStated ==
  (rpc = "done" /\ BaseOfForm(baseUrl)) =>
     /\ Len(outLines) = Len(inLines)
     /\ \A i \in 1..Len(inLines) :
          BareFile(inLines[i]) =>
            outLines[i] = PROXY_PREFIX \o encodeURIComponent(SiblingOf(baseUrl, inLines[i]))

\* C2 amended: the same, unless resolving some relative reference of the
\* manifest throws; then the manifest is returned as it was.
C2_RelativeFiles ==
  (rpc = "done" /\ BaseOfForm(baseUrl)) =>
     IF ResolutionFails THEN result = content
     ELSE /\ Len(outLines) = Len(inLines)
          /\ \A i \in 1..Len(inLines) :
               BareFile(inLines[i]) =>
                 outLines[i] = PROXY_PREFIX \o encodeURIComponent(SiblingOf(baseUrl, inLines[i]))

C2_Witness ==
  /\ rpc = "done" /\ baseUrl = B_query /\ BaseOfForm(baseUrl) /\ ~ResolutionFails
  /\ Len(inLines) = 2
  /\ inLines[1] = L_file(M4V) /\ inLines[2] = L_file(M3U8)
  /\ outLines[1] = PROXY_PREFIX \o encodeURIComponent(SiblingOf(baseUrl, inLines[1]))
  /\ outLines[1] # inLines[1]

\* lines the rewriter has to leave alone
BlankLine(l) == \A i \in 1..Len(l) : IsWhite(l[i])
PlainComment(l) == startsWith(l, <<"#">>) /\ ~startsWith(l, MAP_TAG)
NoRuleLine(l) ==
  /\ ~BlankLine(l)
  /\ ~startsWith(l, <<"#">>)
  /\ ~matchHttp(l)
  /\ ~matchRelative(l)

C4_MalformedBase ==
  (rpc = "done" /\ ~ValidBase) => (result = content /\ ~Threw(result))

C4_Witness ==
  /\ rpc = "done" /\ ~ValidBase /\ baseUrl = B_noHost
  /\ \E i \in 1..Len(inLines) : AbsoluteUrlLine(inLines[i])
  /\ result = content

\* a line that is the init-segment tag with one quoted URI
MapTagLine(l) ==
  /\ startsWith(l, MAP_TAG \o <<DQ>>)
  /\ Len(l) > Len(MAP_TAG) + 2
  /\ l[Len(l)] = DQ
  /\ DQ \notin Range(SubSeq(l, Len(MAP_TAG) + 2, Len(l) - 1))
QuotedUri(l) == SubSeq(l, Len(MAP_TAG) + 2, Len(l) - 1)

\* C5: for every manifest and valid base URL, in each line that is the
\* #EXT-X-MAP tag with a quoted URI the quoted value, and only it, becomes
\* "/proxy?url=" + encodeURIComponent(the value resolved against the base).
C5_MapTag ==
  (rpc = "done" /\ ValidBase /\ ~ResolutionFails) =>
     \A i \in 1..Len(inLines) :
        MapTagLine(inLines[i]) =>
          /\ i <= Len(outLines)
          /\ outLines[i] = MAP_TAG \o <<DQ>> \o PROXY_PREFIX
                           \o encodeURIComponent(resolve(QuotedUri(inLines[i]), baseUrl))
                           \o <<DQ>>

(***************************************************************************)
(* Properties of the handler (Spec)                                        *)
(***************************************************************************)
\* the url parameter is a well-formed absolute http or https URL
WellFormedHttpUrl(q) ==
  /\ q # Undefined
  /\ NewURL(q) # Failure
  /\ NewURL(q).scheme \in {HTTP, HTTPS}

\* the request is over: answered, or left by an exception
Terminal == pc \in {"done", "threw"}
\* upstream answered with an error status
UpstreamErrorStatus == upstream.kind = "response" /\ ~validateStatus(upstream.status)

\* C6: a request whose url parameter is missing or is not a well-formed
\* absolute http/https URL is answered 400 with an error payload, and no
\* upstream fetch is issued for it.
C6_BadUrlIs400 ==
  (query = Undefined \/ ~WellFormedHttpUrl(query)) =>
     /\ fetchCount = 0
     /\ Terminal => (res.sent /\ res.status = 400)

\* C7: when the upstream fetch completes with an error status, the response
\* carries that status and the upstream body; a 500 of the proxy's own is
\* produced only when there is no upstream response.
C7_ErrorRelayed ==
  /\ (Terminal /\ UpstreamErrorStatus) =>
        (res.sent /\ res.status = upstream.status /\ res.body = upstream.body)
  /\ (Terminal /\ outReq.sent /\ res.sent /\ res.status = 500) =>
        (upstream.kind = "error" \/ upstream.status = 500)

\* a segment URL
SegmentUrl(url) == matchExt(url, {TS, M2TS, MP4, M4V})

\* C8: a request to a segment URL with an inbound Range header sends that
\* Range value upstream, and when upstream answers 206 with Content-Range and
\* Accept-Ranges the response has status 206 and carries those headers.
C8_RangeRelayed ==
  (Terminal /\ outReq.sent /\ range # Undefined /\ SegmentUrl(outReq.url)) =>
     /\ get(outReq.headers, "range") = range
     /\ (upstream.kind = "response" /\ upstream.status = 206) =>
          /\ res.status = 206
          /\ get(res.headers, "content-range") = get(upstream.headers, "content-range")
          /\ get(res.headers, "accept-ranges") = get(upstream.headers, "accept-ranges")

\* C9: a request that passes validation issues exactly one upstream fetch, and
\* no request issues more than one.
C9_ExactlyOneFetch ==
  /\ fetchCount <= 1
  /\ (Terminal /\ validated) => fetchCount = 1

\* the kind of a URL by its extension, and the transfer mode of a responseType
UrlKind(url) ==
  IF matchExt(url, {M3U8}) THEN "Manifest"
  ELSE IF matchExt(url, {TS, M2TS}) THEN "Segment"
  ELSE IF matchExt(url, {VTT, SRT, ASS, SSA}) THEN "Subtitle"
  ELSE IF matchExt(url, {MP4, M4V}) THEN "Segment"
  ELSE "Other"
TransferMode(responseType) == IF responseType = "stream" THEN "streamed" ELSE "buffered"

====
